---- MODULE Spec2Model ----
(***************************************************************************)
(* A model of the PDF question-answering pipeline of src/ML.py:            *)
(* extract_text_from_pdf (parallel page OCR, pickle cache keyed by         *)
(* hash(path + mtime)) and preprocess_text (chunking).                     *)
(*                                                                         *)
(* A text is a sequence of tokens.  A token is one whitespace character    *)
(* ("SP" for a space, "NL" for a line feed), one non-printable character   *)
(* ("NP"), or a run of printable non-whitespace characters (a word).  The  *)
(* Python string "" is the empty sequence.                                 *)
(***************************************************************************)
EXTENDS Integers, Sequences, FiniteSets, TLC

(***************************************************************************)
(* Bounds of the model.                                                    *)
(***************************************************************************)
MaxPages == 3        \* pages of a document
MaxSteps == 5        \* calls and steps of the environment in SpecCache
NumSeeds == 2        \* string-hash seeds a process start can draw
MaxMtime == 2        \* modification times the file can take
MaxParas == 2        \* paragraphs of a text handed to preprocess_text
MaxChunks == 3       \* chunks of a small document handed to find_relevant_info
MaxThreads == 2      \* worker threads of the window alive at a time

(***************************************************************************)
(* Tokens.                                                                 *)
(***************************************************************************)
Space == {"SP", "NL"}
NonPrintable == {"NP"}
SentenceEnd == {"end.", "stop!", "ask?"}
DigitWords == {"7", "42"}

IsSpace(t) == t \in Space

\* str.strip(): leading and trailing whitespace removed.
RECURSIVE LStrip(_)
LStrip(s) == IF s # <<>> /\ IsSpace(Head(s)) THEN LStrip(Tail(s)) ELSE s

RECURSIVE RStrip(_)
RStrip(s) ==
    IF s # <<>> /\ IsSpace(s[Len(s)]) THEN RStrip(SubSeq(s, 1, Len(s) - 1)) ELSE s

Strip(s) == RStrip(LStrip(s))

\* The indices of s, ascending.
Indices(s) == [i \in 1..Len(s) |-> i]

\* re.sub(r'\s+', ' ', text): every maximal whitespace run becomes one space.
NormalizeWhitespace(s) ==
    LET kept == SelectSeq(Indices(s),
                          LAMBDA i : ~IsSpace(s[i]) \/ i = 1 \/ ~IsSpace(s[i - 1]))
    IN  [k \in 1..Len(kept) |-> IF IsSpace(s[kept[k]]) THEN "SP" ELSE s[kept[k]]]

\* re.sub(r'[^\x20-\x7E\n]', '', text)
RemoveNonPrintable(s) == SelectSeq(s, LAMBDA t : t \notin NonPrintable)

\* re.sub(r'(?<=[.!?])\s', '\n', text): one whitespace character that follows
\* sentence punctuation becomes a line feed.
BreakAfterSentence(s) ==
    [i \in 1..Len(s) |->
        IF IsSpace(s[i]) /\ i > 1 /\ s[i - 1] \in SentenceEnd THEN "NL" ELSE s[i]]

\* len(text.split()): the number of maximal runs of non-whitespace.
WordCount(s) ==
    Cardinality({i \in 1..Len(s) : ~IsSpace(s[i]) /\ (i = 1 \/ IsSpace(s[i - 1]))})

(***************************************************************************)
(* Pages.  The rasterizer yields one image per page; pytesseract either    *)
(* raises on an image or returns its raw text.                             *)
(***************************************************************************)
RawBlank == <<"SP", "NL">>
RawAlpha == <<"SP", "alpha", "SP", "SP", "end.", "NL", "one", "SP", "NP", "SP">>
RawBeta == <<"beta">>

OcrFails == [fail |-> TRUE, raw |-> <<>>]
PageImages ==
    {OcrFails} \cup {[fail |-> FALSE, raw |-> r] : r \in {RawBlank, RawAlpha, RawBeta}}

RECURSIVE SeqsUpTo(_, _)
SeqsUpTo(S, n) ==
    IF n = 0 THEN {<<>>}
    ELSE LET shorter == SeqsUpTo(S, n - 1)
         IN  shorter \cup {Append(q, x) : q \in {r \in shorter : Len(r) = n - 1}, x \in S}

\* process_image: the cleaned text of a page, "" when anything raises.
process_image(image) ==
    IF image.fail THEN <<>>
    ELSE Strip(BreakAfterSentence(RemoveNonPrintable(NormalizeWhitespace(image.raw))))

(***************************************************************************)
(* The cache.                                                              *)
(***************************************************************************)
PdfPath == "doc.pdf"
NoFile == 0
Seeds == 1..NumSeeds
Mtimes == 1..MaxMtime

\* hash(s) of a str: SipHash keyed by the seed the interpreter draws when the
\* process starts.  Idealised as collision free: distinct (seed, string) pairs
\* hash to distinct values.
str_hash(hashSeed, s) == [salt |-> hashSeed, of |-> s]

\* A key that leaves the modification time out.
KeyString_WithoutMtime(path, mt) == <<path, NoFile>>

\* pdf_path + str(os.path.getmtime(pdf_path))
KeyString(path, mt) == <<path, mt>>

\* get_cache_path: the cache file of a document under the running process.
get_cache_path(path, mt, hashSeed) == str_hash(hashSeed, KeyString(path, mt))

CachePaths == {get_cache_path(PdfPath, m, s) : m \in Mtimes, s \in Seeds}
\* The cache path of a call that raised before computing one.
NoPath == [salt |-> 0, of |-> <<>>]

\* What a cache file can be: absent, a pickle of {'text': text}, a file that
\* cannot be opened, bytes that do not unpickle, a pickle without 'text'.
Absent == [kind |-> "absent", text |-> <<>>]
Pickled(t) == [kind |-> "pickle", text |-> t]
CorruptKinds == {"unreadable", "garbage", "nokey"}
Corrupt(k) == [kind |-> k, text |-> <<>>]

\* A load that catches only the failures of open and of pickle.load, so that a
\* pickle without 'text' raises KeyError out of the call.
load_cache_KeyErrorEscapes(file) ==
    IF file.kind = "pickle" THEN [outcome |-> "hit", text |-> file.text]
    ELSE IF file.kind = "nokey" THEN [outcome |-> "error", text |-> <<>>]
    ELSE [outcome |-> "miss", text |-> <<>>]

\* The outcome of the try block that loads the cache file: the bare except
\* turns every failure into a miss.
load_cache(file) ==
    IF file.kind = "pickle" THEN [outcome |-> "hit", text |-> file.text]
    ELSE [outcome |-> "miss", text |-> <<>>]

(***************************************************************************)
(* Results of a call.                                                      *)
(***************************************************************************)
Returned(t) == [kind |-> "return", type |-> "str", msg |-> <<>>, text |-> t]
Raised(ty, m) == [kind |-> "raise", type |-> ty, msg |-> m, text |-> <<>>]
NoResult == [kind |-> "none", type |-> "", msg |-> <<>>, text |-> <<>>]

NoPagesMsg == <<"No pages could be extracted from the PDF">>
NoTextMsg == <<"No text could be extracted from the PDF">>
NotFoundMsg == <<"PDF file not found: ", PdfPath>>

\* except Exception as e: raise Exception(f"Error processing PDF: {str(e)}")
Wrap(e) == Raised("Exception", <<"Error processing PDF: ">> \o e.msg)

\* chunk.strip() is truthy
HasText(chunk) == Strip(chunk) # <<>>

\* "\n\n".join(chunk for chunk in text_chunks if chunk.strip()), text_chunks
\* being the slots 0 .. n-1.
RECURSIVE JoinFrom(_, _, _)
JoinFrom(slots, i, n) ==
    IF i >= n THEN <<>>
    ELSE LET rest == JoinFrom(slots, i + 1, n)
         IN  IF ~HasText(slots[i]) THEN rest
             ELSE IF rest = <<>> /\ \A j \in (i + 1)..(n - 1) : ~HasText(slots[j])
                  THEN slots[i]
                  ELSE slots[i] \o <<"NL", "NL">> \o rest

JoinPages(slots, n) == JoinFrom(slots, 0, n)

\* The texts, a blank line between them.
RECURSIVE JoinWithBlankLine(_)
JoinWithBlankLine(texts) ==
    IF texts = <<>> THEN <<>>
    ELSE IF Len(texts) = 1 THEN texts[1]
    ELSE texts[1] \o <<"NL", "NL">> \o JoinWithBlankLine(Tail(texts))

(***************************************************************************)
(* preprocess_text.                                                        *)
(***************************************************************************)
MinWords == 5
MaxWords == 150

\* text.split('\n\n'): the pieces between successive blank-line separators,
\* found left to right.
RECURSIVE SplitBlankLines(_)
SplitBlankLines(s) ==
    LET at == {i \in 1..(Len(s) - 1) : s[i] = "NL" /\ s[i + 1] = "NL"}
    IN  IF at = {} THEN <<s>>
        ELSE LET first == CHOOSE i \in at : \A j \in at : i <= j
             IN  <<SubSeq(s, 1, first - 1)>>
                     \o SplitBlankLines(SubSeq(s, first + 2, Len(s)))

\* re.split(r'(?<=[.!?])\s+', para): the pieces between the whitespace runs
\* that follow sentence punctuation.
SplitSentences(s) ==
    LET starts == SelectSeq(Indices(s),
                            LAMBDA i : /\ IsSpace(s[i])
                                       /\ i > 1
                                       /\ s[i - 1] \in SentenceEnd)
        runEnd(i) == CHOOSE e \in i..Len(s) :
                         /\ \A j \in i..e : IsSpace(s[j])
                         /\ e = Len(s) \/ ~IsSpace(s[e + 1])
        from(k) == IF k = 1 THEN 1 ELSE runEnd(starts[k - 1]) + 1
        to(k) == IF k = Len(starts) + 1 THEN Len(s) ELSE starts[k] - 1
    IN  [k \in 1..(Len(starts) + 1) |-> SubSeq(s, from(k), to(k))]

\* The loop over the sentences of a long paragraph, from sentence k on, with
\* the chunk being filled and the chunks already closed.
RECURSIVE Accumulate(_, _, _, _)
Accumulate(sentences, k, current_chunk, chunk_list) ==
    IF k > Len(sentences)
    THEN IF current_chunk # <<>> /\ WordCount(current_chunk) > MinWords
         THEN Append(chunk_list, Strip(current_chunk))
         ELSE chunk_list
    ELSE IF WordCount(current_chunk) + WordCount(sentences[k]) < MaxWords
         THEN Accumulate(sentences, k + 1, current_chunk \o <<"SP">> \o sentences[k],
                         chunk_list)
         ELSE Accumulate(sentences, k + 1, sentences[k],
                         IF WordCount(current_chunk) > MinWords
                         THEN Append(chunk_list, Strip(current_chunk))
                         ELSE chunk_list)

\* process_paragraph: the chunks of one paragraph.
process_paragraph(paragraph) ==
    LET para == Strip(paragraph)
    IN  IF WordCount(para) < MinWords THEN <<>>
        ELSE IF WordCount(para) > MaxWords
             THEN Accumulate(SplitSentences(para), 1, <<>>, <<>>)
             ELSE <<para>>

\* chunk.isdigit()
IsDigit(chunk) == chunk # <<>> /\ \A i \in 1..Len(chunk) : chunk[i] \in DigitWords

\* all(c.isdigit() or c.isspace() for c in chunk)
DigitsAndSpaces(chunk) ==
    \A i \in 1..Len(chunk) : chunk[i] \in DigitWords \/ IsSpace(chunk[i])

\* The filter of the final comprehension: lines 215-217.
KeepChunk(chunk) ==
    /\ WordCount(chunk) > MinWords
    /\ ~IsDigit(chunk)
    /\ ~DigitsAndSpaces(chunk)

RECURSIVE Flatten(_)
Flatten(lists) == IF lists = <<>> THEN <<>> ELSE Head(lists) \o Flatten(Tail(lists))

\* A deduplication that keeps the last occurrence of each chunk instead of
\* the first.
DictFromKeys_KeepLast(cs) ==
    LET kept == SelectSeq(Indices(cs),
                          LAMBDA i : \A j \in (i + 1)..Len(cs) : cs[j] # cs[i])
    IN  [k \in 1..Len(kept) |-> cs[kept[k]]]

\* list(dict.fromkeys(chunks)): the first occurrence of each chunk, in order.
DictFromKeys(cs) ==
    LET kept == SelectSeq(Indices(cs), LAMBDA i : \A j \in 1..(i - 1) : cs[j] # cs[i])
    IN  [k \in 1..Len(kept) |-> cs[kept[k]]]

\* The chunks of all paragraphs in source order, noise removed: the list the
\* comprehension of lines 213-218 hands to dict.fromkeys. executor.map yields
\* the results in the order of the paragraphs.
FilteredChunks(text) ==
    LET normalized == Strip(NormalizeWhitespace(text))
        paragraphs == SplitBlankLines(normalized)
        chunk_lists == [k \in 1..Len(paragraphs) |-> process_paragraph(paragraphs[k])]
    IN  SelectSeq(Flatten(chunk_lists), KeepChunk)

preprocess_text(text) == DictFromKeys(FilteredChunks(text))

\* n words w, one space between them.
Words(n, w) == [i \in 1..(2 * n - 1) |-> IF i % 2 = 1 THEN w ELSE "SP"]

\* n sentences of k words each, the last word of each ending in a full stop.
Sentences(n, k, w) ==
    [i \in 1..(2 * n * k - 1) |->
        IF i % 2 = 0 THEN "SP" ELSE IF ((i + 1) \div 2) % k = 0 THEN "end." ELSE w]

\* The paragraphs texts are made of: short ones around the 5-word floor, a
\* numeric one, one of exactly 150 words, and long ones: four sentences of 40
\* words, 151 words without sentence punctuation, a sentence of 149 words
\* followed by three words, one sentence of 100 words, two sentences of 100
\* words.
ParagraphPool ==
    {Words(4, "a"), Words(5, "a"), Words(5, "b"), Words(6, "a"), Words(6, "b"),
     Words(6, "7"), Words(MaxWords, "c"), Sentences(4, 40, "d"),
     Words(MaxWords + 1, "e"),
     Sentences(1, MaxWords - 1, "g") \o <<"SP">> \o Words(3, "h"),
     Sentences(1, 100, "d"),
     Sentences(1, 100, "d") \o <<"SP">> \o Sentences(1, 100, "e")}

(***************************************************************************)
(* get_embedding_cached and find_relevant_info.  A text is a number: a     *)
(* chunk list is <<1, ..., n>>, and 0 is a question that is no chunk.  The *)
(* encoder and cosine_similarity are outside the repository: the vector of *)
(* a text is opaque, and the similarity of a chunk to the question is an   *)
(* input, in hundredths.                                                   *)
(***************************************************************************)
maxsize == 1000          \* functools.lru_cache(maxsize=1000)
min_similarity == 30     \* 0.3
top_k_default == 3       \* top_k=3

\* Similarities a chunk can have to the question.
Scores == {25, 30, 50, 90}

Elements(s) == {s[i] : i \in 1..Len(s)}

\* The cache of lru_cache: the cached texts, the least recently used first.
\* A hit moves the text to the end.
LruHit(entries, text) == SelectSeq(entries, LAMBDA t : t # text) \o <<text>>

\* A cache that stores nothing.
LruStore_NotStored(entries, text) == entries

\* A miss stores the new result and, the cache being full, drops the least
\* recently used entry.
LruStore(entries, text) ==
    IF Len(entries) >= maxsize
    THEN Tail(entries) \o <<text>>
    ELSE Append(entries, text)

\* get_embedding_cached(text) with the cache entries and the texts on which
\* get_embedding raises: whether it raised, the calls of get_embedding it
\* made, and the cache afterwards.  An exception is not cached.
get_embedding_cached(text, entries, raising) ==
    IF text \in Elements(entries)
    THEN [raised |-> FALSE, computed |-> 0, cache |-> LruHit(entries, text)]
    ELSE IF text \in raising
         THEN [raised |-> TRUE, computed |-> 1, cache |-> entries]
         ELSE [raised |-> FALSE, computed |-> 1, cache |-> LruStore(entries, text)]

\* A process_chunk whose exception is not caught.
process_chunk_FailureEscapes(chunk, entries, raising) ==
    LET e == get_embedding_cached(chunk, entries, raising)
    IN  [data |-> IF e.raised THEN "raised" ELSE "data",
         computed |-> e.computed, cache |-> e.cache]

\* process_chunk: (chunk, embedding), or None when the embedding raised.
process_chunk(chunk, entries, raising) ==
    LET e == get_embedding_cached(chunk, entries, raising)
    IN  [data |-> IF e.raised THEN "None" ELSE "data",
         computed |-> e.computed, cache |-> e.cache]

\* What a call of find_relevant_info gives its caller.
RankReturned(rs) == [kind |-> "return", type |-> "list", msg |-> <<>>, results |-> rs]
RankRaised(ty, m) == [kind |-> "raise", type |-> ty, msg |-> m, results |-> <<>>]

NoValidMsg == <<"No valid chunk embeddings generated">>
EmbeddingMsg == <<"embedding failed">>

\* An except clause that lets the exception reach the caller.
HandleException_Propagates(e) == e

\* except Exception: print and return [].
HandleException(e) == RankReturned(<<>>)

\* cosine_similarity of the vectors of the question and of a chunk: 1.0 for
\* equal texts, the chunk's similarity otherwise.
calculate_similarity(query_text, chunk, sim) ==
    IF chunk = query_text THEN 100 ELSE sim[chunk]

\* A filter that lets a similarity of exactly 0.3 through.
AboveThreshold_Inclusive(sim) == sim >= min_similarity

\* sim > min_similarity
AboveThreshold(sim) == sim > min_similarity

Maximum(S) == CHOOSE x \in S : \A y \in S : y <= x

\* A descending sort that reverses the pairs of equal similarity.
RECURSIVE SortDescending_TiesReversed(_)
SortDescending_TiesReversed(rs) ==
    IF rs = <<>> THEN <<>>
    ELSE LET top == Maximum({rs[i][2] : i \in 1..Len(rs)})
             best == SelectSeq(rs, LAMBDA r : r[2] = top)
         IN  [i \in 1..Len(best) |-> best[Len(best) + 1 - i]]
                 \o SortDescending_TiesReversed(SelectSeq(rs, LAMBDA r : r[2] # top))

\* list.sort(key=lambda x: x[1], reverse=True): by similarity descending,
\* pairs of equal similarity in the order they had (the sort is stable).
RECURSIVE SortDescending(_)
SortDescending(rs) ==
    IF rs = <<>> THEN <<>>
    ELSE LET top == Maximum({rs[i][2] : i \in 1..Len(rs)})
         IN  SelectSeq(rs, LAMBDA r : r[2] = top)
                 \o SortDescending(SelectSeq(rs, LAMBDA r : r[2] # top))

\* A slice that is one element too long.
TopK_OneMore(rs, k) == SubSeq(rs, 1, IF Len(rs) < k + 1 THEN Len(rs) ELSE k + 1)

\* filtered_results[:top_k], for top_k >= 0.
TopK(rs, k) == SubSeq(rs, 1, IF Len(rs) < k THEN Len(rs) ELSE k)

\* find_relevant_info from line 242 on: data holds, for every chunk, what
\* process_chunk gave.
RankChunks(query_text, chunk_list, data, sim, k) ==
    IF \E i \in 1..Len(chunk_list) : data[i] = "raised"
    THEN HandleException(RankRaised("Exception", EmbeddingMsg))
    ELSE LET valid == SelectSeq(Indices(chunk_list), LAMBDA i : data[i] = "data")
         IN  IF valid = <<>>
             THEN HandleException(RankRaised("ValueError", NoValidMsg))
             ELSE LET similarities ==
                          [i \in 1..Len(valid) |->
                              <<chunk_list[valid[i]],
                                calculate_similarity(query_text, chunk_list[valid[i]], sim)>>]
                      filtered_results ==
                          SelectSeq(similarities, LAMBDA r : AboveThreshold(r[2]))
                  IN  RankReturned(TopK(SortDescending(filtered_results), k))


VARIABLES
    pages,        \* the page images the rasterizer yields for the file
    seed,         \* the string-hash seed of the running process
    mtime,        \* os.path.getmtime of the file, NoFile when it does not exist
    cache,        \* the files of CACHE_DIR, by cache path
    pc,           \* "idle", "ocr" (inside the as_completed loop) or "done"
    pending,      \* page numbers whose future the loop has not yet handled
    text_chunks,  \* the slots of text_chunks, <<>> outside the loop
    cbArgs,       \* first arguments the progress callback has been called with
    cur,          \* the running call: cache path, callback, what it found
    work,         \* rasterizations and page OCRs the running call has done
    result,       \* what the last call returned or raised
    history,      \* the last two finished calls, older first
    steps,        \* calls started and steps the environment has taken
    paras,        \* the paragraphs the text for preprocess_text is made of
    doc_text,     \* the text handed to preprocess_text
    chunks,       \* the list preprocess_text returned
    stage,        \* "text" before preprocess_text has run, "chunked" after
    query,        \* the question handed to find_relevant_info
    rank_chunks,  \* the chunk list handed to find_relevant_info
    top_k,        \* its top_k
    score,        \* the similarity of each chunk to the question
    raising,      \* the texts on which get_embedding raises
    lru,          \* the entries of get_embedding_cached's cache
    rpc,          \* "idle", "embedding" (inside the first executor.map) or "done"
    chunk_data,   \* per chunk "pending", or what process_chunk gave
    embed_calls,  \* calls of get_embedding the running or last call has made
    answers,      \* the finished calls: what each gave, the get_embedding calls it made
    pdf_path,         \* self.pdf_path: "None" or the selected file
    ui_chunks,        \* self.chunks: "None", "empty", or the file they were made from
    processing,       \* self.processing
    last_question,    \* self.last_question
    last_result,      \* self.last_result
    select_button,    \* state of the widget: "normal" or "disabled"
    question_entry,   \* state of the widget
    ask_button,       \* state of the widget
    answer_text,      \* what the answer area shows, and self.chunks when it was put there
    after_calls,      \* _enable_question_input calls queued with root.after
    workers           \* the threads started by process_pdf and ask_question

extractVars ==
    <<pages, seed, mtime, cache, pc, pending, text_chunks, cbArgs, cur, work,
      result, history, steps>>

chunkVars == <<paras, doc_text, chunks, stage>>

rankVars ==
    <<query, rank_chunks, top_k, score, raising, lru, rpc, chunk_data,
      embed_calls, answers>>

uiVars ==
    <<pdf_path, ui_chunks, processing, last_question, last_result, select_button,
      question_entry, ask_button, answer_text, after_calls, workers>>

vars == <<extractVars, chunkVars, rankVars, uiVars>>

\* What the steps of one component leave alone.
ExtractRest == <<chunkVars, rankVars, uiVars>>
ChunkRest == <<extractVars, rankVars, uiVars>>
RankRest == <<extractVars, chunkVars, uiVars>>
UiRest == <<extractVars, chunkVars, rankVars>>

Docs(n) == SeqsUpTo(PageImages, n)

\* The history with one more finished call, cut to the last two; of the older
\* call only the cache path, the modification time, the seed, the result and
\* the work are kept.
Older(call) ==
    [call EXCEPT !.callback = FALSE, !.found = Absent, !.lastIntact = FALSE]

Record(h, call) == IF h = <<>> THEN <<call>> ELSE <<Older(h[Len(h)]), call>>

\* The file at a cache path, Absent when there is none.
FileAt(path) == IF path \in CachePaths THEN cache[path] ELSE Absent

NoCall ==
    [path |-> NoPath, mt |-> NoFile, hashSeed |-> 0, callback |-> FALSE,
     found |-> Absent, lastIntact |-> FALSE]
NoWork == [raster |-> 0, ocr |-> 0, wrote |-> FALSE]

\* No text has been handed to preprocess_text.
InitNoText ==
    /\ paras = <<>>
    /\ doc_text = <<>>
    /\ chunks = <<>>
    /\ stage = "text"

\* find_relevant_info has not been called.
InitNoQuery ==
    /\ query = 0
    /\ rank_chunks = <<>>
    /\ top_k = top_k_default
    /\ score = <<>>
    /\ raising = {}
    /\ lru = <<>>
    /\ rpc = "idle"
    /\ chunk_data = <<>>
    /\ embed_calls = 0
    /\ answers = <<>>

\* The window as PDFQuestionAnswerUI.__init__ leaves it.
NoResults == [doc |-> "None", query |-> "None"]
NothingShown == [kind |-> "blank", doc |-> "None", query |-> "None", loaded |-> "None"]
NoThread == [kind |-> "free", at |-> "", query |-> "None"]

InitWindow ==
    /\ pdf_path = "None"
    /\ ui_chunks = "None"
    /\ processing = FALSE
    /\ last_question = "None"
    /\ last_result = NoResults
    /\ select_button = "normal"
    /\ question_entry = "normal"
    /\ ask_button = "normal"
    /\ answer_text = NothingShown
    /\ after_calls = 0
    /\ workers = [w \in 1..MaxThreads |-> NoThread]

InitCall ==
    /\ pc = "idle"
    /\ pending = {}
    /\ text_chunks = <<>>
    /\ cbArgs = <<>>
    /\ cur = NoCall
    /\ work = NoWork
    /\ result = NoResult
    /\ history = <<>>
    /\ steps = 0

\* One call on a fresh cache directory, documents of up to MaxPages pages.
InitOcr ==
    /\ pages \in Docs(MaxPages)
    /\ seed = 1
    /\ mtime = 1
    /\ cache = [p \in CachePaths |-> Absent]
    /\ InitCall
    /\ InitNoText
    /\ InitNoQuery
    /\ InitWindow

\* The documents of SpecCache: no page, one page whose OCR fails, one page
\* without text, one page with text.
CacheDocs ==
    {<<>>, <<OcrFails>>, <<[fail |-> FALSE, raw |-> RawBlank]>>,
     <<[fail |-> FALSE, raw |-> RawAlpha]>>}

\* Several calls, the file touched and the process restarted in between.
InitCache ==
    /\ pages \in CacheDocs
    /\ seed \in Seeds
    /\ mtime = 1
    /\ cache = [p \in CachePaths |-> Absent]
    /\ InitCall
    /\ InitNoText
    /\ InitNoQuery
    /\ InitWindow

\* The last finished call returned a text and wrote its cache record, and the
\* record is still in its file.
LastIntact ==
    /\ history # <<>>
    /\ LET last == history[Len(history)]
       IN  /\ last.result.kind = "return"
           /\ last.work.wrote
           /\ FileAt(last.path) = Pickled(last.result.text)

\* The record of a finished call.
Finished(call, res, wk) ==
    [path |-> call.path, mt |-> call.mt, hashSeed |-> call.hashSeed,
     callback |-> call.callback, found |-> call.found, lastIntact |-> call.lastIntact, result |-> res,
     work |-> wk]

(***************************************************************************)
(* extract_text_from_pdf(pdf_path, progress_callback), up to the submission *)
(* of the page tasks: lines 73-117.                                        *)
(***************************************************************************)
BeginCall(callback, limit) ==
    /\ pc \in {"idle", "done"}
    /\ steps < limit
    /\ steps' = steps + 1
    /\ cbArgs' = <<>>
    /\ LET cache_path == IF mtime = NoFile THEN NoPath
                         ELSE get_cache_path(PdfPath, mtime, seed)
           file == FileAt(cache_path)
           loaded == load_cache(file)
           call == [path |-> cache_path, mt |-> mtime, hashSeed |-> seed,
                    callback |-> callback, found |-> file,
                    lastIntact |-> LastIntact]
           finish(res, wk) ==
               /\ pc' = "done"
               /\ result' = res
               /\ work' = wk
               /\ history' = Record(history, Finished(call, res, wk))
               /\ pending' = {}
               /\ text_chunks' = <<>>
               /\ cur' = NoCall
       IN  /\ IF mtime = NoFile
              THEN finish(Raised("FileNotFoundError", NotFoundMsg), NoWork)
              ELSE IF file.kind # "absent" /\ loaded.outcome = "hit"
              THEN finish(Returned(loaded.text), NoWork)
              ELSE IF file.kind # "absent" /\ loaded.outcome = "error"
              THEN finish(Raised("KeyError", <<"text">>), NoWork)
              ELSE IF Len(pages) = 0
              THEN finish(Wrap(Raised("ValueError", NoPagesMsg)),
                          [NoWork EXCEPT !.raster = 1])
              ELSE /\ pc' = "ocr"
                   /\ cur' = call
                   /\ pending' = 0..(Len(pages) - 1)
                   /\ text_chunks' = [i \in 0..(Len(pages) - 1) |-> <<>>]
                   /\ work' = [NoWork EXCEPT !.raster = 1]
                   /\ result' = NoResult
                   /\ UNCHANGED history
    /\ UNCHANGED <<pages, seed, mtime, cache>>
    /\ UNCHANGED ExtractRest

(***************************************************************************)
(* One iteration of the as_completed loop, lines 119-127: the future of    *)
(* page_num is done, its text goes into its slot, the callback is called;  *)
(* anything raised in the try block empties the slot.                      *)
(***************************************************************************)
HandlePage(page_num, callbackRaises) ==
    /\ pc = "ocr"
    /\ page_num \in pending
    /\ callbackRaises => cur.callback
    /\ pending' = pending \ {page_num}
    /\ work' = [work EXCEPT !.ocr = @ + 1]
    /\ cbArgs' = IF cur.callback THEN Append(cbArgs, page_num + 1) ELSE cbArgs
    /\ text_chunks' =
           [text_chunks EXCEPT ![page_num] =
               IF callbackRaises THEN <<>> ELSE process_image(pages[page_num + 1])]
    /\ UNCHANGED <<pages, seed, mtime, cache, pc, cur, result, history, steps>>
    /\ UNCHANGED ExtractRest

\* with open(cache_path, 'wb') as f: pickle.dump({'text': text}, f) either
\* succeeds, raises in open (the file is as it was) or raises in dump (the file
\* is left truncated).
WriteOutcomes == {"ok", "open fails", "dump fails"}

\* A check that never finds the text empty.
IsBlank_Never(text) == FALSE

\* not text.strip()
IsBlank(text) == Strip(text) = <<>>

(***************************************************************************)
(* Lines 129-145: join, fail on an empty text, write the cache on a best   *)
(* effort, return.                                                         *)
(***************************************************************************)
FinishCall(write) ==
    /\ pc = "ocr"
    /\ pending = {}
    /\ LET text == JoinPages(text_chunks, Len(pages))
           res == IF IsBlank(text) THEN Wrap(Raised("ValueError", NoTextMsg))
                  ELSE Returned(text)
           wrote == ~IsBlank(text) /\ write = "ok"
           wk == [work EXCEPT !.wrote = wrote]
       IN  /\ result' = res
           /\ work' = wk
           /\ cache' = IF IsBlank(text) \/ write = "open fails" THEN cache
                       ELSE [cache EXCEPT ![cur.path] =
                                IF write = "ok" THEN Pickled(text)
                                ELSE Corrupt("garbage")]
           /\ history' = Record(history, Finished(cur, res, wk))
    /\ pc' = "done"
    /\ text_chunks' = <<>>
    /\ cur' = NoCall
    /\ UNCHANGED <<pages, seed, mtime, pending, cbArgs, steps>>
    /\ UNCHANGED ExtractRest

(***************************************************************************)
(* The environment: the file is touched or removed, the process is         *)
(* restarted, a cache file is damaged.                                     *)
(***************************************************************************)
EnvStep ==
    /\ pc # "ocr"
    /\ steps < MaxSteps
    /\ steps' = steps + 1

Touch(mt) ==
    /\ EnvStep
    /\ mt # mtime
    /\ mtime' = mt
    /\ UNCHANGED <<pages, seed, cache, pc, pending, text_chunks, cbArgs, cur, work,
                   result, history>>
    /\ UNCHANGED ExtractRest

Restart(hashSeed) ==
    /\ EnvStep
    /\ hashSeed # seed
    /\ seed' = hashSeed
    /\ UNCHANGED <<pages, mtime, cache, pc, pending, text_chunks, cbArgs, cur, work,
                   result, history>>
    /\ UNCHANGED ExtractRest

Damage(path, k) ==
    /\ EnvStep
    /\ mtime # NoFile
    /\ path = get_cache_path(PdfPath, mtime, seed)
    /\ cache[path].kind # "absent"
    /\ cache[path] # Corrupt(k)
    /\ cache' = [cache EXCEPT ![path] = Corrupt(k)]
    /\ UNCHANGED <<pages, seed, mtime, pc, pending, text_chunks, cbArgs, cur, work,
                   result, history>>
    /\ UNCHANGED ExtractRest

(***************************************************************************)
(* preprocess_text(text), as main() and the UI call it on a text.          *)
(***************************************************************************)
Preprocess ==
    /\ stage = "text"
    /\ chunks' = preprocess_text(doc_text)
    /\ stage' = "chunked"
    /\ UNCHANGED <<paras, doc_text>>
    /\ UNCHANGED ChunkRest

\* Texts of one to MaxParas paragraphs, a blank line between paragraphs.
InitChunk ==
    /\ paras \in SeqsUpTo(ParagraphPool, MaxParas) \ {<<>>}
    /\ doc_text = JoinWithBlankLine(paras)
    /\ chunks = <<>>
    /\ stage = "text"
    /\ pages = <<>>
    /\ seed = 1
    /\ mtime = 1
    /\ cache = [p \in CachePaths |-> Absent]
    /\ InitCall
    /\ InitNoQuery
    /\ InitWindow

(***************************************************************************)
(* find_relevant_info(query, chunks, top_k).  The workers of the first     *)
(* executor.map take the chunks in any order; the second executor.map      *)
(* shares no state and is part of the last step.                           *)
(***************************************************************************)
Answered(a) == Append(answers, [answer |-> a, computed |-> embed_calls'])

\* The call up to the submission of the chunks: lines 224-240.
Ask(limit) ==
    /\ rpc \in {"idle", "done"}
    /\ Len(answers) < limit
    /\ LET q == get_embedding_cached(query, lru, raising)
       IN  /\ lru' = q.cache
           /\ embed_calls' = q.computed
           /\ IF q.raised
              THEN /\ rpc' = "done"
                   /\ chunk_data' = <<>>
                   /\ answers' = Answered(HandleException(
                                               RankRaised("Exception", EmbeddingMsg)))
              ELSE /\ rpc' = "embedding"
                   /\ chunk_data' = [i \in 1..Len(rank_chunks) |-> "pending"]
                   /\ answers' = answers
    /\ UNCHANGED <<query, rank_chunks, top_k, score, raising>>
    /\ UNCHANGED RankRest

\* One worker runs process_chunk on a chunk k not yet processed.  The workers
\* of a document of more than MaxChunks chunks are followed in submission
\* order only.
ProcessChunk ==
    /\ rpc = "embedding"
    /\ \E k \in 1..Len(rank_chunks) :
           /\ chunk_data[k] = "pending"
           /\ IF Len(rank_chunks) <= MaxChunks \/ k = 1
              THEN TRUE
              ELSE chunk_data[k - 1] # "pending"
           /\ LET r == process_chunk(rank_chunks[k], lru, raising)
              IN  /\ chunk_data' = [chunk_data EXCEPT ![k] = r.data]
                  /\ lru' = r.cache
                  /\ embed_calls' = embed_calls + r.computed
    /\ UNCHANGED <<query, rank_chunks, top_k, score, raising, rpc, answers>>
    /\ UNCHANGED RankRest

\* Every worker is done: lines 242-272.
Rank ==
    /\ rpc = "embedding"
    /\ \A i \in 1..Len(rank_chunks) : chunk_data[i] # "pending"
    /\ rpc' = "done"
    /\ embed_calls' = embed_calls
    /\ answers' = Answered(RankChunks(query, rank_chunks, chunk_data, score, top_k))
    /\ UNCHANGED <<query, rank_chunks, top_k, score, raising, lru, chunk_data>>
    /\ UNCHANGED RankRest

InitIdle ==
    /\ InitNoText
    /\ pages = <<>>
    /\ seed = 1
    /\ mtime = 1
    /\ cache = [p \in CachePaths |-> Absent]
    /\ InitCall

InitRanker ==
    /\ lru = <<>>
    /\ rpc = "idle"
    /\ chunk_data = <<>>
    /\ embed_calls = 0
    /\ answers = <<>>

\* The chunk lists: <<1, ..., n>>.
ChunkList(n) == [i \in 1..n |-> i]
SmallDocs == {ChunkList(n) : n \in 0..MaxChunks}
BigDocs == {ChunkList(maxsize - 1), ChunkList(maxsize)}

\* One question on a small document: any similarities, any failing texts.
InitRank ==
    /\ rank_chunks \in SmallDocs
    /\ query \in 0..1
    /\ top_k \in 1..top_k_default
    /\ score \in [Elements(rank_chunks) -> Scores]
    /\ raising \in SUBSET ({query} \cup Elements(rank_chunks))
    /\ InitRanker
    /\ InitIdle
    /\ InitWindow

\* The similarities of the documents of SpecAsk.
PatternScore(cs) == [i \in 1..Len(cs) |-> IF i % 2 = 1 THEN 50 ELSE 90]

\* The same question asked twice: on a small document with any failing
\* texts, or on a document that fills the cache, without failures.
InitAsk ==
    /\ rank_chunks \in SmallDocs \cup BigDocs
    /\ query \in IF rank_chunks \in SmallDocs THEN 0..1 ELSE {0}
    /\ top_k = top_k_default
    /\ score = PatternScore(rank_chunks)
    /\ raising \in IF rank_chunks \in SmallDocs
                   THEN SUBSET ({query} \cup Elements(rank_chunks))
                   ELSE {{}}
    /\ InitRanker
    /\ InitIdle
    /\ InitWindow

NextRank ==
    \/ Ask(1)
    \/ ProcessChunk
    \/ Rank

NextAsk ==
    \/ Ask(2)
    \/ ProcessChunk
    \/ Rank

(***************************************************************************)
(* The window of ui.py.  The main thread runs select_pdf, ask_question and *)
(* the calls queued with root.after; process_pdf and ask_question start a  *)
(* thread each.  A thread runs its first statements, then the long call,   *)
(* then its finally clause.                                                *)
(***************************************************************************)
PdfFiles == {"A.pdf", "B.pdf"}
Questions == {"q1", "q2"}

\* self.chunks holds a non-empty list.
HasChunks == ui_chunks \notin {"None", "empty"}

FreeSlots == {w \in 1..MaxThreads : workers[w].kind = "free"}

\* threading.Thread(target=...).start()
Started(thread) ==
    [workers EXCEPT ![CHOOSE w \in FreeSlots : \A v \in FreeSlots : w <= v] = thread]

\* A user who waits acts only when no thread is alive.
Patient == FreeSlots = 1..MaxThreads

\* select_pdf with a valid file chosen in the dialog, and process_pdf.
select_pdf(file_path, waits) ==
    /\ waits => Patient
    /\ select_button = "normal"
    /\ FreeSlots # {}
    /\ pdf_path' = file_path
    /\ workers' = Started([kind |-> "process", at |-> "start", query |-> "None"])
    /\ UNCHANGED <<ui_chunks, processing, last_question, last_result, select_button,
                   question_entry, ask_button, answer_text, after_calls>>
    /\ UNCHANGED UiRest

\* process(), lines 552-567.
ProcessBegin(w) ==
    /\ workers[w].kind = "process"
    /\ workers[w].at = "start"
    /\ processing' = TRUE
    /\ select_button' = "disabled"
    /\ question_entry' = "disabled"
    /\ ask_button' = "disabled"
    /\ workers' = [workers EXCEPT ![w].at = "extract"]
    /\ UNCHANGED <<pdf_path, ui_chunks, last_question, last_result, answer_text,
                   after_calls>>
    /\ UNCHANGED UiRest

\* process(), lines 570-597: extraction and chunking succeed with chunks,
\* succeed with an empty list, or raise.
ExtractOutcomes == {"chunks", "empty", "error"}
ProcessExtract(w, outcome) ==
    /\ workers[w].kind = "process"
    /\ workers[w].at = "extract"
    /\ pdf_path = "None" => outcome = "error"
    /\ IF outcome = "error"
       THEN /\ ui_chunks' = "None"
            /\ pdf_path' = "None"
            /\ UNCHANGED <<question_entry, ask_button>>
       ELSE /\ ui_chunks' = IF outcome = "chunks" THEN pdf_path ELSE "empty"
            /\ question_entry' = "normal"
            /\ ask_button' = "normal"
            /\ UNCHANGED pdf_path
    /\ select_button' = "normal"
    /\ workers' = [workers EXCEPT ![w].at = "finally"]
    /\ UNCHANGED <<processing, last_question, last_result, answer_text, after_calls>>
    /\ UNCHANGED UiRest

\* process(), lines 599-603.
ProcessFinally(w) ==
    /\ workers[w].kind = "process"
    /\ workers[w].at = "finally"
    /\ processing' = FALSE
    /\ workers' = [workers EXCEPT ![w] = NoThread]
    /\ UNCHANGED <<pdf_path, ui_chunks, last_question, last_result, select_button,
                   question_entry, ask_button, answer_text, after_calls>>
    /\ UNCHANGED UiRest

\* display_results(results) with self.chunks as it is now.
Displayed(results) ==
    [kind |-> "results", doc |-> results.doc, query |-> results.query,
     loaded |-> ui_chunks]

\* ask_question with a question in the entry, past its early returns: the
\* last result is shown again, or a thread is started.
ask_question(q, waits) ==
    /\ waits => Patient
    /\ ask_button = "normal" \/ question_entry = "normal"
    /\ pdf_path # "None"
    /\ HasChunks
    /\ ~processing
    /\ IF q = last_question /\ last_result # NoResults
       THEN /\ answer_text' = Displayed(last_result)
            /\ UNCHANGED workers
       ELSE /\ FreeSlots # {}
            /\ workers' = Started([kind |-> "question", at |-> "start", query |-> q])
            /\ UNCHANGED answer_text
    /\ UNCHANGED <<pdf_path, ui_chunks, processing, last_question, last_result,
                   select_button, question_entry, ask_button, after_calls>>
    /\ UNCHANGED UiRest

\* process_question(), lines 646-652.
QuestionBegin(w) ==
    /\ workers[w].kind = "question"
    /\ workers[w].at = "start"
    /\ processing' = TRUE
    /\ question_entry' = "disabled"
    /\ ask_button' = "disabled"
    /\ workers' = [workers EXCEPT ![w].at = "search"]
    /\ UNCHANGED <<pdf_path, ui_chunks, last_question, last_result, select_button,
                   answer_text, after_calls>>
    /\ UNCHANGED UiRest

\* process_question(), lines 655-711: find_relevant_info on self.chunks as it
\* is now gives results or nothing; _enable_question_input is queued.
QuestionSearch(w, found) ==
    /\ workers[w].kind = "question"
    /\ workers[w].at = "search"
    /\ after_calls < MaxThreads
    /\ found => HasChunks
    /\ LET relevant_info == [doc |-> ui_chunks, query |-> workers[w].query]
       IN  IF found
           THEN /\ last_question' = workers[w].query
                /\ last_result' = relevant_info
                /\ answer_text' = Displayed(relevant_info)
           ELSE /\ answer_text' = [kind |-> "nothing found", doc |-> "None",
                                   query |-> workers[w].query, loaded |-> ui_chunks]
                /\ UNCHANGED <<last_question, last_result>>
    /\ after_calls' = after_calls + 1
    /\ workers' = [workers EXCEPT ![w].at = "finally"]
    /\ UNCHANGED <<pdf_path, ui_chunks, processing, select_button, question_entry,
                   ask_button>>
    /\ UNCHANGED UiRest

\* process_question(), lines 712-715.
QuestionFinally(w) ==
    /\ workers[w].kind = "question"
    /\ workers[w].at = "finally"
    /\ processing' = FALSE
    /\ workers' = [workers EXCEPT ![w] = NoThread]
    /\ UNCHANGED <<pdf_path, ui_chunks, last_question, last_result, select_button,
                   question_entry, ask_button, answer_text, after_calls>>
    /\ UNCHANGED UiRest

\* The main loop runs a queued _enable_question_input.
enable_question_input ==
    /\ after_calls > 0
    /\ after_calls' = after_calls - 1
    /\ question_entry' = "normal"
    /\ ask_button' = "normal"
    /\ UNCHANGED <<pdf_path, ui_chunks, processing, last_question, last_result,
                   select_button, answer_text, workers>>
    /\ UNCHANGED UiRest

InitUi ==
    /\ InitWindow
    /\ InitNoQuery
    /\ InitIdle

NextUi ==
    \/ \E file_path \in PdfFiles : select_pdf(file_path, FALSE)
    \/ \E w \in 1..MaxThreads : ProcessBegin(w)
    \/ \E w \in 1..MaxThreads, outcome \in ExtractOutcomes : ProcessExtract(w, outcome)
    \/ \E w \in 1..MaxThreads : ProcessFinally(w)
    \/ \E q \in Questions : ask_question(q, FALSE)
    \/ \E w \in 1..MaxThreads : QuestionBegin(w)
    \/ \E w \in 1..MaxThreads, found \in BOOLEAN : QuestionSearch(w, found)
    \/ \E w \in 1..MaxThreads : QuestionFinally(w)
    \/ enable_question_input

\* The window used by a user who waits for the running thread.
NextUiSerial ==
    \/ \E file_path \in PdfFiles : select_pdf(file_path, TRUE)
    \/ \E w \in 1..MaxThreads : ProcessBegin(w)
    \/ \E w \in 1..MaxThreads, outcome \in ExtractOutcomes : ProcessExtract(w, outcome)
    \/ \E w \in 1..MaxThreads : ProcessFinally(w)
    \/ \E q \in Questions : ask_question(q, TRUE)
    \/ \E w \in 1..MaxThreads : QuestionBegin(w)
    \/ \E w \in 1..MaxThreads, found \in BOOLEAN : QuestionSearch(w, found)
    \/ \E w \in 1..MaxThreads : QuestionFinally(w)
    \/ enable_question_input

NextChunk == Preprocess

NextOcr ==
    \/ \E callback \in BOOLEAN : BeginCall(callback, 1)
    \/ \E p \in 0..(MaxPages - 1), raises \in BOOLEAN : HandlePage(p, raises)
    \/ \E write \in WriteOutcomes : FinishCall(write)

NextCache ==
    \/ \E callback \in BOOLEAN : BeginCall(callback, MaxSteps)
    \/ \E p \in 0..(MaxPages - 1), raises \in BOOLEAN : HandlePage(p, raises)
    \/ \E write \in WriteOutcomes : FinishCall(write)
    \/ \E mt \in Mtimes \cup {NoFile} : Touch(mt)
    \/ \E s \in Seeds : Restart(s)
    \/ \E path \in CachePaths, k \in CorruptKinds : Damage(path, k)

SpecOcr == InitOcr /\ [][NextOcr]_vars
SpecCache == InitCache /\ [][NextCache]_vars
SpecChunk == InitChunk /\ [][NextChunk]_vars
SpecRank == InitRank /\ [][NextRank]_vars
SpecAsk == InitAsk /\ [][NextAsk]_vars
SpecUi == InitUi /\ [][NextUi]_vars
SpecUiSerial == InitUi /\ [][NextUiSerial]_vars

(***************************************************************************)
(* Vocabulary of the claims about extract_text_from_pdf.                   *)
(***************************************************************************)
\* The text OCR gives for each page, in page order.
PageTexts == [i \in 1..Len(pages) |-> process_image(pages[i])]

\* The non-empty page texts in ascending page order, a blank line between them.
ExpectedText == JoinWithBlankLine(SelectSeq(PageTexts, LAMBDA t : t # <<>>))

\* sub occurs in s as a contiguous run.
Contains(s, sub) ==
    \E k \in 0..(Len(s) - Len(sub)) : SubSeq(s, k + 1, k + Len(sub)) = sub

NonDecreasing(q) == \A i \in 1..(Len(q) - 1) : q[i] <= q[i + 1]

\* The call that has just finished ran the page OCR loop.
OcrDone == pc = "done" /\ work.raster = 1 /\ Len(pages) > 0

LastCall == history[Len(history)]

\* C1: for every completion order of the page OCR tasks, the returned text
\* is the non-empty page texts joined in ascending page index with a
\* blank-line separator, an empty page contributing nothing.
C1_TextIsPagesInOrder ==
    (OcrDone /\ result.kind = "return") => result.text = ExpectedText

\* C2: when OCR fails on some pages but not all (and some page has text), the
\* call does not raise, the failed pages contribute nothing and the text of
\* every other page is in the result.
C2_PageFailureIsolated ==
    (/\ OcrDone
     /\ \E i \in 1..Len(pages) : pages[i].fail
     /\ \E i \in 1..Len(pages) : PageTexts[i] # <<>>)
    => /\ result.kind = "return"
       /\ \A i \in 1..Len(pages) : Contains(result.text, PageTexts[i])

\* C3: the first arguments passed to the progress callback never decrease,
\* and a call that runs OCR on N pages invokes the callback exactly N times.
C3_ProgressMonotone ==
    /\ NonDecreasing(cbArgs)
    /\ (OcrDone /\ LastCall.callback) => Len(cbArgs) = Len(pages)

\* Two calls have finished, both on an existing file.
TwoCalls ==
    /\ Len(history) = 2
    /\ history[1].mt # NoFile
    /\ history[2].mt # NoFile

\* C4: after a call has returned a text and written its cache record, a
\* second call for the same unmodified document returns the same text and
\* does no rasterization and no page OCR.
C4_SecondCallServedFromCache ==
    (/\ TwoCalls
     /\ history[2].lastIntact
     /\ history[2].mt = history[1].mt)
    => /\ history[2].result = history[1].result
       /\ history[2].work.raster = 0
       /\ history[2].work.ocr = 0

\* C5: the fingerprint get_cache_path computes for a (path, modification
\* time) pair is the same in every process run.
C5_FingerprintSameInEveryRun ==
    (TwoCalls /\ history[2].mt = history[1].mt) => history[2].path = history[1].path

\* C6 as claimed: when the modification time changes between two calls, the
\* second call uses a different fingerprint and runs rasterization and OCR
\* again.
C6_TouchForcesReextraction ==
    (TwoCalls /\ history[2].mt # history[1].mt)
    => /\ history[2].path # history[1].path
       /\ history[2].work.raster = 1
       /\ history[2].work.ocr = Len(pages)

\* C6 as amended: when the modification time changes between two calls, the
\* second call uses a different fingerprint; it runs rasterization and OCR
\* again unless the file of the new fingerprint holds a readable record, whose
\* text it then returns.
C6_TouchChangesFingerprint ==
    (TwoCalls /\ history[2].mt # history[1].mt)
    => /\ history[2].path # history[1].path
       /\ IF history[2].found.kind = "pickle"
          THEN history[2].result = Returned(history[2].found.text)
          ELSE /\ history[2].work.raster = 1
               /\ history[2].work.ocr = Len(pages)

C6_Witness ==
    /\ TwoCalls
    /\ history[2].mt # history[1].mt
    /\ history[1].work.wrote
    /\ history[2].work.raster = 1
    /\ history[2].work.ocr > 0
    /\ history[2].result.kind = "return"

\* C7: a cache file that exists but cannot be opened, cannot be unpickled
\* or lacks the text field is a miss: the call raises nothing because of it
\* and goes on to rasterization and OCR.
C7_CorruptCacheIsMiss ==
    (history # <<>> /\ LastCall.found.kind \in CorruptKinds)
    => /\ LastCall.work.raster = 1
       /\ LastCall.work.ocr = Len(pages)
       /\ LastCall.result.kind \in {"return", "raise"}
       /\ LastCall.result.kind = "raise"
          => LastCall.result \in {Wrap(Raised("ValueError", NoPagesMsg)),
                                  Wrap(Raised("ValueError", NoTextMsg))}

C7_Witness ==
    /\ history # <<>>
    /\ LastCall.found.kind = "nokey"
    /\ LastCall.work.ocr > 0
    /\ LastCall.result.kind = "return"

\* Every page gives an empty text.
AllPagesBlank == \A i \in 1..Len(pages) : PageTexts[i] = <<>>

\* The exception types of the other failures of a call that reached the
\* rasterizer.
OtherFailureTypes == {Wrap(Raised("ValueError", NoPagesMsg)).type}

ChunkSet == {chunks[i] : i \in 1..Len(chunks)}

\* A paragraph of 5 to 150 words.
InRange(p) == WordCount(p) >= MinWords /\ WordCount(p) <= MaxWords

\* A paragraph that is purely numeric, or purely digits and whitespace.
IsNumeric(p) == IsDigit(p) \/ DigitsAndSpaces(p)

\* Neither paragraph is a part of the other.
Distinct(p, q) == ~Contains(p, q) /\ ~Contains(q, p)

\* C9: a text of two distinct paragraphs of 5 to 150 words each, separated
\* by a blank line, yields each paragraph as a chunk of its own, and no chunk
\* holds text of both paragraphs.
C9_SplitOnBlankLines ==
    (/\ stage = "chunked"
     /\ Len(paras) = 2
     /\ Distinct(paras[1], paras[2])
     /\ \A i \in 1..2 : InRange(paras[i]) /\ ~IsNumeric(paras[i]))
    => /\ paras[1] \in ChunkSet
       /\ paras[2] \in ChunkSet
       /\ \A c \in ChunkSet : ~(Contains(c, paras[1]) /\ Contains(c, paras[2]))

\* C10: a paragraph is discarded for being short exactly when it has fewer
\* than 5 words: every paragraph of 5 to 150 words that is not purely digits
\* and whitespace is a chunk of the output, and no paragraph of fewer than 5
\* words is.
C10_ShortParagraphsDiscarded ==
    stage = "chunked"
    => \A i \in 1..Len(paras) :
           /\ (InRange(paras[i]) /\ ~IsNumeric(paras[i])) => paras[i] \in ChunkSet
           /\ WordCount(paras[i]) < MinWords => paras[i] \notin ChunkSet

\* C11: every chunk emitted from a paragraph of more than 150 words has
\* fewer than 150 words, whatever the lengths of its sentences, and none of
\* them is below the 5-word floor.
C11_SubChunksUnderLimit ==
    (stage = "chunked" /\ Len(paras) = 1 /\ WordCount(paras[1]) > MaxWords)
    => \A c \in ChunkSet : WordCount(c) < MaxWords /\ WordCount(c) >= MinWords

\* The position of the first occurrence of chunk c in the list cs.
FirstAt(cs, c) == CHOOSE i \in 1..Len(cs) : cs[i] = c /\ \A j \in 1..(i - 1) : cs[j] # c

\* C12: the returned chunk list holds no string twice, holds every chunk text
\* the steps before deduplication produced, and orders them by the position
\* of their first occurrence.
C12_NoDuplicatesFirstKept ==
    stage = "chunked"
    => LET produced == FilteredChunks(doc_text)
       IN  /\ \A i, j \in 1..Len(chunks) : i # j => chunks[i] # chunks[j]
           /\ ChunkSet = {produced[i] : i \in 1..Len(produced)}
           /\ \A i, j \in 1..Len(chunks) :
                  i < j => FirstAt(produced, chunks[i]) < FirstAt(produced, chunks[j])

\* A chunk text produced a second time after a different chunk, and one copy
\* of it returned.
C12_Witness ==
    /\ stage = "chunked"
    /\ LET produced == FilteredChunks(doc_text)
       IN  /\ Len(produced) = 3
           /\ produced[1] = produced[3]
           /\ produced[1] # produced[2]
           /\ chunks = <<produced[1], produced[2]>>

(***************************************************************************)
(* Vocabulary of the claims about find_relevant_info.                      *)
(***************************************************************************)
RankDone == rpc = "done" /\ answers # <<>>

LastAnswer == answers[Len(answers)].answer

Results == LastAnswer.results

\* The similarity of a chunk text to the question.
Similarity(c) == IF c = query THEN 100 ELSE score[c]

\* The position of a chunk text in the chunk list handed in.
PositionOf(c) == CHOOSE i \in 1..Len(rank_chunks) : rank_chunks[i] = c

\* The chunks whose embedding and whose similarity the call obtained, and
\* whose similarity exceeds the threshold.
Qualifying ==
    IF query \in raising THEN {}
    ELSE {c \in Elements(rank_chunks) : c \notin raising /\ Similarity(c) > min_similarity}

\* C14: every returned pair carries the chunk's similarity, and it is
\* strictly greater than 0.3; no chunk of similarity 0.3 or less is returned.
C14_ScoresAboveThreshold ==
    RankDone
    => \A i \in 1..Len(Results) :
           /\ Results[i][2] = Similarity(Results[i][1])
           /\ Results[i][2] > min_similarity

\* A chunk of similarity exactly 0.3 was embedded and left out, while another
\* chunk was returned.
C14_Witness ==
    /\ RankDone
    /\ query \notin raising
    /\ \E c \in Elements(rank_chunks) :
           /\ c \notin raising
           /\ Similarity(c) = min_similarity
           /\ \A i \in 1..Len(Results) : Results[i][1] # c
    /\ Results # <<>>

\* C15: the returned list is ordered by similarity descending, and two
\* results of equal similarity are in the order of their chunks in the input.
C15_DescendingAndStable ==
    RankDone
    => \A i, j \in 1..Len(Results) :
           i < j => /\ Results[i][2] >= Results[j][2]
                    /\ Results[i][2] = Results[j][2]
                       => PositionOf(Results[i][1]) < PositionOf(Results[j][1])

\* Three results: two of equal similarity and one of another similarity that
\* came first in the input although it ranks last.
C15_Witness ==
    /\ RankDone
    /\ Len(Results) = 3
    /\ Results[1][2] = Results[2][2]
    /\ Results[2][2] > Results[3][2]
    /\ PositionOf(Results[3][1]) < PositionOf(Results[1][1])

\* C16: with top_k = K the call returns exactly min(K, m) results, m being
\* the number of chunks whose similarity exceeds the threshold; they are
\* such chunks, each once, and none left out scores higher than one returned.
C16_ExactlyTopK ==
    RankDone
    => LET m == Cardinality(Qualifying)
           returned == {Results[i][1] : i \in 1..Len(Results)}
       IN  /\ Len(Results) = (IF top_k < m THEN top_k ELSE m)
           /\ Len(Results) <= top_k
           /\ Cardinality(returned) = Len(Results)
           /\ returned \subseteq Qualifying
           /\ \A c \in Qualifying \ returned :
                  \A i \in 1..Len(Results) : Similarity(c) <= Results[i][2]

\* More chunks clear the threshold than top_k allows.
C16_Witness ==
    /\ RankDone
    /\ Cardinality(Qualifying) > top_k
    /\ Len(Results) = top_k
    /\ \E c \in Qualifying : \A i \in 1..Len(Results) : Results[i][1] # c

\* C17: when the question was embedded and the chunk list is empty, or no
\* chunk's similarity exceeds 0.3, the call returns the empty list and raises
\* nothing.
C17_NothingRelevantIsEmptyList ==
    (/\ RankDone
     /\ query \notin raising
     /\ \A c \in Elements(rank_chunks) : Similarity(c) <= min_similarity)
    => LastAnswer = RankReturned(<<>>)

\* Every chunk was embedded and the best match has similarity 0.25.
C17_Witness ==
    /\ RankDone
    /\ rank_chunks # <<>>
    /\ raising = {}
    /\ \A c \in Elements(rank_chunks) : Similarity(c) = 25
    /\ LastAnswer = RankReturned(<<>>)

\* C18: when the embedding fails for some chunks but succeeds for the
\* question and at least one chunk, the call returns what it returns on the
\* chunk list without the failed chunks.
C18_FailedChunksExcluded ==
    (/\ RankDone
     /\ query \notin raising
     /\ \E c \in Elements(rank_chunks) : c \in raising
     /\ \E c \in Elements(rank_chunks) : c \notin raising)
    => LET others == SelectSeq(rank_chunks, LAMBDA c : c \notin raising)
       IN  LastAnswer = RankChunks(query, others, [i \in 1..Len(others) |-> "data"],
                                   score, top_k)

\* A chunk failed, and chunks on both sides of it were ranked and returned.
C18_Witness ==
    /\ RankDone
    /\ query \notin raising
    /\ Len(rank_chunks) = 3
    /\ rank_chunks[2] \in raising
    /\ Len(Results) = 2

\* C19: when the embedding of the question fails, the call raises a typed
\* failure with a message, which differs from the empty list of a question
\* that found nothing.
C19_QueryFailurePropagates ==
    (RankDone /\ query \in raising)
    => /\ LastAnswer.kind = "raise"
       /\ LastAnswer.type # ""
       /\ LastAnswer.msg # <<>>
       /\ LastAnswer # RankReturned(<<>>)

\* The texts a call embeds: the question and the chunks.
AskedTexts == {query} \cup Elements(rank_chunks)

\* C20: for a document of any number of chunks, the second call with the
\* same question and chunk list returns the same ordered results and makes
\* no call of get_embedding.
C20_SecondAskFromCache ==
    Len(answers) = 2
    => /\ answers[2].answer = answers[1].answer
       /\ answers[2].computed = 0

\* C20 as amended: the same, for a question and chunks that are at most 1000
\* distinct texts, every one of which the first call embedded.
C20_SecondAskFromCacheWhenItFits ==
    (/\ Len(answers) = 2
     /\ Cardinality(AskedTexts) <= maxsize
     /\ AskedTexts \cap raising = {})
    => /\ answers[2].answer = answers[1].answer
       /\ answers[2].computed = 0

\* The question and 999 chunks fill the cache exactly, and the second call
\* found all of them in it.
C20_Witness ==
    /\ Len(answers) = 2
    /\ Cardinality(AskedTexts) = maxsize
    /\ answers[1].computed = maxsize
    /\ answers[2].computed = 0
    /\ Len(answers[2].answer.results) = top_k

(***************************************************************************)
(* The progress callback.                                                  *)
(***************************************************************************)
\* What a call that runs OCR on the pages gives when no callback is supplied.
ResultWithoutCallback ==
    IF Strip(ExpectedText) = <<>>
    THEN Wrap(Raised("ValueError", NoTextMsg))
    ELSE Returned(ExpectedText)

\* C21: a call that runs OCR gives the same result whether no callback is
\* supplied, the callback returns, or the callback raises on some page; the
\* text of every page that was recognised is in the returned text.
C21_CallbackDoesNotChangeText ==
    OcrDone
    => /\ result = ResultWithoutCallback
       /\ \A i \in 1..Len(pages) :
              PageTexts[i] # <<>>
              => result.kind = "return" /\ Contains(result.text, PageTexts[i])

(***************************************************************************)
(* Vocabulary of the claims about the window.                              *)
(***************************************************************************)
\* The threads that have been started and have not finished.
Running == {w \in 1..MaxThreads : workers[w].kind # "free"}

\* The threads inside their long call, after their first statements and
\* before their finally clause.
Working == {w \in 1..MaxThreads : workers[w].at \in {"extract", "search"}}

\* C22: once another PDF has been processed successfully, the results shown
\* by ask_question are never results computed from the chunks of the PDF
\* loaded before, also when the question is the last one asked of it.
C22_NoResultsOfPreviousDocument ==
    (answer_text.kind = "results" /\ answer_text.loaded \in PdfFiles)
    => answer_text.doc = answer_text.loaded

\* C23: at most one worker thread is running at any time, and the processing
\* flag is true whenever one is at work: no search is started while PDF
\* processing or another search is in progress.
C23_SingleWorker ==
    /\ Cardinality(Running) <= 1
    /\ Working # {} => processing

====
